---- MODULE Spec2Model ----
(***************************************************************************)
(* Model of the RockChip MPP decoder adapter, libavcodec/rkmppdec.c.       *)
(*                                                                         *)
(* The adapter (rkmpp_receive_frame, rkmpp_send_packet, rkmpp_write_data,  *)
(* rkmpp_retrieve_frame, rkmpp_flush, rkmpp_close_decoder and the two      *)
(* release callbacks) is translated from the source.  The MPP engine, the  *)
(* caller and the allocator are the environment: every answer they can     *)
(* give is a nondeterministic input of the step that asks for it.          *)
(*                                                                         *)
(* One call of rkmpp_receive_frame runs as: a submit step (lines 719-751), *)
(* then a poll step (line 482) and a classify step (lines 483-708) for     *)
(* every turn of the retry loop.  The engine decodes between the steps.    *)
(*                                                                         *)
(* SpecZC runs the adapter in zero-copy mode, SpecSW in software mode.     *)
(* LiveSpec is zero-copy mode with nothing failing and with fairness, for  *)
(* what must eventually happen.  ConvSpec runs the software conversion of  *)
(* rkmpp_convert_frame on its own, byte by byte.                           *)
(***************************************************************************)
EXTENDS Integers, Sequences, FiniteSets, TLC

(* ------------------------------ bounds --------------------------------- *)
\* data packets the caller supplies over the whole run
MaxPackets == 2
\* packets the engine holds before it answers "buffer full" by itself
EngineCap == 5
\* frame objects the engine keeps ready for the poll
MaxOut == 2
\* Frame Descriptors the caller holds at once
MaxHeld == 2
\* format-change notices the engine emits over the whole run
MaxNotices == 1

(* ------------------------- program constants --------------------------- *)
INPUT_MAX_PACKETS == 4
CODED_ALIGN == 64
\* AVERROR(EAGAIN), AVERROR(ENOMEM), AVERROR_EOF, AVERROR_UNKNOWN
AVERROR_EAGAIN == -11
AVERROR_ENOMEM == -12
AVERROR_EOF == -541478725
AVERROR_UNKNOWN == -1313558101
\* stands for INT64_MIN, which is outside TLC's integers; only compared for equality
AV_NOPTS_VALUE == -2147483647

\* statuses of the engine's calls
MPP_OK == "MPP_OK"
MPP_NOK == "MPP_NOK"
MPP_ERR_TIMEOUT == "MPP_ERR_TIMEOUT"
MPP_ERR_BUFFER_FULL == "MPP_ERR_BUFFER_FULL"
\* mpp_packet_init failing, before anything is handed to the engine
PACKET_INIT_FAILED == "PACKET_INIT_FAILED"

AV_PIX_FMT_DRM_PRIME == "DRM_PRIME"
AV_PIX_FMT_YUV420P == "YUV420P"

(* ------------------------- environment's values ------------------------ *)
\* timestamps a caller's packet may carry
PtsVals == {AV_NOPTS_VALUE, 0, 5}
\* values the caller may have stashed in avctx->reordered_opaque
OpaqueVals == {9}
\* the geometries the engine's successive format-change notices report
Geoms == <<(<<65, 64>>), (<<1, 48>>), (<<64, 2>>)>>
\* buffer sizes the engine may report for a frame
BufSizes == {1, 2}
\* what the engine or mpp_packet_init may answer to one rkmpp_write_data
WriteOutcomes == {MPP_OK, MPP_ERR_BUFFER_FULL, MPP_NOK, PACKET_INIT_FAILED}

NoFrame == [none |-> TRUE]
NoNotice == <<>>

VARIABLES
    \* --- AVCodecContext fields and build options, fixed after open
    pix_fmt,            \* avctx->pix_fmt, chosen at open (line 209)
    extradata_size,     \* avctx->extradata_size
    reordered_opaque,   \* avctx->reordered_opaque
    print_fps,          \* decoder->print_fps (lines 218-220)
    librga,             \* the build has CONFIG_LIBRGA
    \* --- AVCodecContext fields the adapter writes
    avctx,              \* width, height, coded_width, coded_height
    \* --- RKMPPDecoder (lines 53-71)
    first_packet,
    eos_reached,
    frames_ref,         \* decoder->frames_ref is not NULL
    pool,               \* decoder->pool is not NULL
    pool_size,
    frames,
    last_fps_time,      \* 0, or 1 for "a time was stored"
    \* --- reference counting of the decoder buffer
    ctx_ref,            \* rk_context->decoder_ref is not NULL
    refcount,           \* references on the decoder buffer
    teardowns,          \* how many times rkmpp_release_decoder has run
    held,               \* Frame Descriptors the caller holds, by kind
    dangling_buf,       \* the caller's frame holds the buffer left by a failure at 666
    \* --- rkmpp_convert_frame's statics
    rga_supported,
    rga_inited,
    rga_failed,         \* a call of c_RkRgaInit or c_RkRgaBlit has failed in this process
    \* --- one call of rkmpp_receive_frame
    pc,                 \* "idle", "retrieve", "classify", "crashed"
    lastRet,            \* <<r>>: what the last call returned; <<>> while a call runs
    eof_returned,       \* a call has returned AVERROR_EOF since the last flush
    mppframe,           \* the object of the last poll, NoFrame for NULL
    pollret,            \* the status of the last poll
    frame,              \* the AVFrame filled by the last call
    wr,                 \* what the submit step just taken submitted: <<[kind, outcome]>>
    conv_path,          \* "none", "rga", "soft": how the last frame was converted
    qfailed,            \* the in-flight query of the submit step just taken failed
    \* --- the engine
    engine_alive,       \* FALSE after mpp_destroy
    pkts,               \* packets accepted and not yet decoded
    out,                \* frame objects ready to be polled
    notice,             \* a pending format-change notice, or NoNotice
    announced,          \* the engine has emitted a format-change notice
    ack_pending,        \* a notice was polled and is not yet acknowledged
    \* --- the caller
    supplied,           \* data packets supplied so far
    notices,            \* notices emitted so far
    \* --- rkmpp_convert_frame's software path, run on its own (ConvSpec)
    cv,
    \* --- rkmpp_init_decoder, run on its own (OpenSpec)
    op

cfgVars == <<pix_fmt, extradata_size, reordered_opaque, print_fps, librga>>
flagVars == <<first_packet, eos_reached>>
fpsVars == <<frames, last_fps_time>>
poolVars == <<pool, pool_size>>
rgaVars == <<rga_supported, rga_inited, rga_failed>>
refVars == <<ctx_ref, refcount, teardowns, held, dangling_buf>>
callVars == <<pc, lastRet, eof_returned, mppframe, pollret, frame, wr, conv_path>>
geomVars == <<avctx, frames_ref, ack_pending>>
adapterVars == <<cfgVars, flagVars, fpsVars, poolVars, rgaVars, refVars, callVars,
                 geomVars, qfailed>>
engineVars == <<engine_alive, pkts, out, notice, announced>>
callerVars == <<supplied, notices>>
vars == <<adapterVars, engineVars, callerVars, cv, op>>

\* a descriptor's frame context holds a decoder reference ("ref"), or NULL because
\* av_buffer_ref failed at line 654 ("noref")
DescKinds == {"ref", "noref"}
HeldTotal == held["ref"] + held["noref"]

(* ------------------------------ helpers -------------------------------- *)
\* a variant of FFALIGN that always goes on to the next multiple
FFALIGN_next(x, a) == (x \div a + 1) * a

\* FFALIGN(x, a), lines 503-504
FFALIGN(x, a) == ((x + a - 1) \div a) * a

\* a variant of rkmpp_get_usedslots that reports a full engine when the query fails
get_usedslots_failure_full(q, queryFails) ==
    IF queryFails THEN INPUT_MAX_PACKETS ELSE Len(q)

\* rkmpp_get_usedslots, lines 105-121, against the engine's packet queue q:
\* 1 when the control query fails
rkmpp_get_usedslots(q, queryFails) == IF queryFails THEN 1 ELSE Len(q)

\* a variant of rkmpp_accept_packet that still admits at INPUT_MAX_PACKETS
accept_packet_at_limit(q, queryFails) ==
    INPUT_MAX_PACKETS >= rkmpp_get_usedslots(q, queryFails)

\* a variant of rkmpp_accept_packet that stops admitting one packet early
accept_packet_below_limit(q, queryFails) ==
    INPUT_MAX_PACKETS - 1 > rkmpp_get_usedslots(q, queryFails)

\* rkmpp_accept_packet, lines 123-128
rkmpp_accept_packet(q, queryFails) == INPUT_MAX_PACKETS > rkmpp_get_usedslots(q, queryFails)

\* the timestamp rkmpp_write_data puts on the packet, lines 137-138
PacketPts(pts) == IF pts = 0 \/ pts = AV_NOPTS_VALUE THEN reordered_opaque ELSE pts

\* a variant of WriteRet that reports "buffer full" as a fatal error
WriteRet_full_is_fatal(outcome) == IF outcome = MPP_OK THEN 0 ELSE AVERROR_UNKNOWN

\* rkmpp_write_data's return value, lines 141-165
WriteRet(outcome) ==
    IF outcome = PACKET_INIT_FAILED THEN AVERROR_UNKNOWN
    ELSE IF outcome = MPP_OK THEN 0
    ELSE IF outcome = MPP_ERR_BUFFER_FULL THEN AVERROR_EAGAIN
    ELSE AVERROR_UNKNOWN

\* the engine's packet queue after one rkmpp_write_data (decode_put_packet, line 152);
\* orig is the timestamp the caller gave, kept beside the packet for the properties
PutPacket(q, kind, pts, orig, outcome) ==
    IF outcome = MPP_OK
    THEN Append(q, [kind |-> kind, pts |-> PacketPts(pts), orig |-> orig])
    ELSE q

\* the engine takes a packet only while it has room
CanAnswer(q, outcome) == outcome = MPP_OK => Len(q) < EngineCap

\* a variant of rkmpp_send_packet that clears the first-packet flag before the
\* header is written, so that a header is tried once only
rkmpp_send_packet_header_once(size, pts, o1, o2) ==
    IF size = 0
    THEN [ret |-> WriteRet(o1), first_packet |-> first_packet, eos_reached |-> 1,
          pkts |-> PutPacket(pkts, "eos", 0, 0, o1),
          wr |-> <<[kind |-> "eos", outcome |-> o1]>>]
    ELSE IF first_packet = 1 /\ extradata_size > 0
    THEN IF WriteRet(o1) # 0
         THEN [ret |-> WriteRet(o1), first_packet |-> 0,
               eos_reached |-> eos_reached,
               pkts |-> PutPacket(pkts, "hdr", pts, 0, o1),
               wr |-> <<[kind |-> "hdr", outcome |-> o1]>>]
         ELSE [ret |-> WriteRet(o2), first_packet |-> 0, eos_reached |-> eos_reached,
               pkts |-> PutPacket(PutPacket(pkts, "hdr", pts, 0, o1), "data", pts, pts, o2),
               wr |-> <<[kind |-> "hdr", outcome |-> o1], [kind |-> "data", outcome |-> o2]>>]
    ELSE [ret |-> WriteRet(o1),
          first_packet |-> IF first_packet = 1 THEN 0 ELSE first_packet,
          eos_reached |-> eos_reached,
          pkts |-> PutPacket(pkts, "data", pts, pts, o1),
          wr |-> <<[kind |-> "data", outcome |-> o1]>>]

\* rkmpp_send_packet, lines 304-340, for a packet of the given size and timestamp;
\* o1 and o2 are the outcomes of its first and second rkmpp_write_data.
\* The result holds the return value and the fields, queue and log it leaves.
rkmpp_send_packet(size, pts, o1, o2) ==
    IF size = 0
    THEN [ret |-> WriteRet(o1), first_packet |-> first_packet, eos_reached |-> 1,
          pkts |-> PutPacket(pkts, "eos", 0, 0, o1),
          wr |-> <<[kind |-> "eos", outcome |-> o1]>>]
    ELSE IF first_packet = 1 /\ extradata_size > 0
    THEN IF WriteRet(o1) # 0
         THEN [ret |-> WriteRet(o1), first_packet |-> first_packet,
               eos_reached |-> eos_reached,
               pkts |-> PutPacket(pkts, "hdr", pts, 0, o1),
               wr |-> <<[kind |-> "hdr", outcome |-> o1]>>]
         ELSE [ret |-> WriteRet(o2), first_packet |-> 0, eos_reached |-> eos_reached,
               pkts |-> PutPacket(PutPacket(pkts, "hdr", pts, 0, o1), "data", pts, pts, o2),
               wr |-> <<[kind |-> "hdr", outcome |-> o1], [kind |-> "data", outcome |-> o2]>>]
    ELSE [ret |-> WriteRet(o1),
          first_packet |-> IF first_packet = 1 THEN 0 ELSE first_packet,
          eos_reached |-> eos_reached,
          pkts |-> PutPacket(pkts, "data", pts, pts, o1),
          wr |-> <<[kind |-> "data", outcome |-> o1]>>]

\* the engine can give the outcomes o1, o2 to the writes of rkmpp_send_packet
SendAnswerable(size, o1, o2) ==
    /\ CanAnswer(pkts, o1)
    /\ IF size # 0 /\ first_packet = 1 /\ extradata_size > 0 /\ WriteRet(o1) = 0
       THEN CanAnswer(PutPacket(pkts, "hdr", 0, 0, o1), o2)
       ELSE o2 = MPP_OK


(* ------------------ rkmpp_init_decoder, lines 201-302 ------------------ *)
\* the codecs the adapter is registered for, lines 806-809
CodecIds == {"h264", "hevc", "vp8"}

\* what open acquires
OpenResources == {"decoder", "decoder_ref", "ctx", "frame_group", "device_ref"}

\* the calls of open that can fail, in order: what each acquires and the status
\* open returns when it fails
OpenSteps == <<
    [call |-> "av_mallocz", gets |-> "decoder", err |-> AVERROR_ENOMEM],
    [call |-> "av_buffer_create", gets |-> "decoder_ref", err |-> AVERROR_ENOMEM],
    [call |-> "mpp_check_support_format", gets |-> "none", err |-> AVERROR_UNKNOWN],
    [call |-> "mpp_create", gets |-> "ctx", err |-> AVERROR_UNKNOWN],
    [call |-> "mpp_init", gets |-> "none", err |-> AVERROR_UNKNOWN],
    [call |-> "mpp_buffer_group_get_internal", gets |-> "frame_group",
     err |-> AVERROR_UNKNOWN],
    [call |-> "MPP_DEC_SET_EXT_BUF_GROUP", gets |-> "none", err |-> AVERROR_UNKNOWN],
    [call |-> "mpp_buffer_group_limit_config", gets |-> "none", err |-> AVERROR_UNKNOWN],
    [call |-> "av_hwdevice_ctx_alloc", gets |-> "device_ref", err |-> AVERROR_ENOMEM],
    [call |-> "av_hwdevice_ctx_init", gets |-> "none", err |-> AVERROR_ENOMEM]>>

\* open's progress: the next call, which resources are live, how often each was
\* acquired and released, and the status returned
OpenRecord(pcv, step, codec, live, ret) ==
    [pc |-> pcv, step |-> step, codec |-> codec, ret |-> ret,
     has |-> [r \in OpenResources |-> r \in live],
     acquired |-> [r \in OpenResources |-> IF r \in live THEN 1 ELSE 0],
     released |-> [r \in OpenResources |-> 0]]

\* open has returned 0
Opened == OpenRecord("opened", Len(OpenSteps) + 1, "h264", OpenResources, 0)
(* ------------------------------- Init ---------------------------------- *)
\* the state after a successful rkmpp_init_decoder, lines 201-296
AdapterInit(configs) ==
    /\ \E c \in configs :
        /\ pix_fmt = c.pix_fmt
        /\ extradata_size = c.extradata_size
        /\ print_fps = c.print_fps
        /\ librga = c.librga
    /\ reordered_opaque \in OpaqueVals
    /\ avctx = [width |-> 0, height |-> 0, coded_width |-> 0, coded_height |-> 0]
    /\ first_packet = 1
    /\ eos_reached = 0
    /\ frames_ref = FALSE
    /\ pool = FALSE
    /\ pool_size = 0
    /\ frames = 0
    /\ last_fps_time = 0
    /\ ctx_ref = TRUE
    /\ refcount = 1
    /\ teardowns = 0
    /\ held = [k \in DescKinds |-> 0]
    /\ dangling_buf = FALSE
    /\ rga_supported = 1
    /\ rga_inited = 0
    /\ rga_failed = FALSE
    /\ pc = "idle"
    /\ lastRet = <<>>
    /\ mppframe = NoFrame
    /\ pollret = MPP_OK
    /\ frame = NoFrame
    /\ wr = <<>>
    /\ conv_path = "none"
    /\ qfailed = FALSE
    /\ eof_returned = FALSE
    /\ op = Opened

EngineInit ==
    /\ engine_alive = TRUE
    /\ pkts = <<>>
    /\ out = <<>>
    /\ notice = NoNotice
    /\ announced = FALSE
    /\ ack_pending = FALSE

CallerInit ==
    /\ supplied = 0
    /\ notices = 0

ConvIdle == cv = [pc |-> "off"]

\* the streams and builds the adapter is opened with: <<extradata_size, print_fps,
\* librga>> for each pixel format
Config(fmt, x, fps, rga) ==
    [pix_fmt |-> fmt, extradata_size |-> x, print_fps |-> fps, librga |-> rga]
ConfigsZC == {Config(AV_PIX_FMT_DRM_PRIME, 1, FALSE, FALSE),
              Config(AV_PIX_FMT_DRM_PRIME, 0, TRUE, FALSE)}
ConfigsSW == {Config(AV_PIX_FMT_YUV420P, 1, FALSE, TRUE),
              Config(AV_PIX_FMT_YUV420P, 0, TRUE, FALSE)}

InitZC == AdapterInit(ConfigsZC) /\ EngineInit /\ CallerInit /\ ConvIdle
InitSW == AdapterInit(ConfigsSW) /\ EngineInit /\ CallerInit /\ ConvIdle

(* ----------------------- rkmpp_receive_frame --------------------------- *)
\* a call may start: the adapter is open, no call is running, and the caller has
\* cleared the frame it passes
CallReady == pc = "idle" /\ ctx_ref /\ engine_alive /\ ~dangling_buf

\* lines 743-753: enter rkmpp_retrieve_frame. The output timeout chosen there (1 or
\* RECEIVE_FRAME_TIMEOUT, after one more in-flight query) only bounds how long the
\* engine's poll may wait; the model lets the engine decode any number of packets
\* before a poll answers, so the timeout is no state of it.
EnterRetrieve ==
    /\ pc' = "retrieve"
    /\ lastRet' = <<>>
    /\ eof_returned' = eof_returned

\* the call returns ret to the caller
ReturnToCaller(ret) ==
    /\ pc' = "idle"
    /\ lastRet' = <<ret>>
    /\ eof_returned' = (eof_returned \/ ret = AVERROR_EOF)

\* what every submit step leaves alone, and the caller's frame it starts from
SubmitFrame ==
    /\ frame' = NoFrame
    /\ conv_path' = "none"
    /\ UNCHANGED <<mppframe, pollret>>
    /\ UNCHANGED <<cfgVars, fpsVars, poolVars, rgaVars, refVars, geomVars>>
    /\ UNCHANGED <<engine_alive, out, notice, announced, notices, cv, op>>

\* line 719 false: the engine reports INPUT_MAX_PACKETS packets or more
RecvNotAdmitted ==
    /\ CallReady
    /\ \E f1 \in BOOLEAN :
        /\ ~rkmpp_accept_packet(pkts, f1)
        /\ qfailed' = f1
    /\ wr' = <<>>
    /\ EnterRetrieve
    /\ SubmitFrame
    /\ UNCHANGED <<first_packet, eos_reached, pkts, supplied>>

\* a variant of RecvEosMarker that goes on to the poll whatever the write answers
RecvEosMarker_polls_on(outcome) ==
    /\ CallReady
    /\ eos_reached = 1
    /\ CanAnswer(pkts, outcome)
    /\ \E f1 \in BOOLEAN :
        /\ rkmpp_accept_packet(pkts, f1)
        /\ qfailed' = f1
    /\ wr' = <<[kind |-> "eos", outcome |-> outcome]>>
    /\ pkts' = PutPacket(pkts, "eos", 0, 0, outcome)
    /\ EnterRetrieve
    /\ SubmitFrame
    /\ UNCHANGED <<first_packet, eos_reached, supplied>>

\* lines 720-726: the end-of-stream flag is set, send the marker again
RecvEosMarker(outcome) ==
    /\ CallReady
    /\ eos_reached = 1
    /\ CanAnswer(pkts, outcome)
    /\ \E f1 \in BOOLEAN :
        /\ rkmpp_accept_packet(pkts, f1)
        /\ qfailed' = f1
    /\ wr' = <<[kind |-> "eos", outcome |-> outcome]>>
    /\ pkts' = PutPacket(pkts, "eos", 0, 0, outcome)
    /\ IF WriteRet(outcome) # 0
       THEN ReturnToCaller(WriteRet(outcome))
       ELSE EnterRetrieve
    /\ SubmitFrame
    /\ UNCHANGED <<first_packet, eos_reached, supplied>>

\* lines 728-729: ff_decode_get_packet has no packet for now
RecvNoPacket ==
    /\ CallReady
    /\ eos_reached = 0
    /\ \E f1 \in BOOLEAN :
        /\ rkmpp_accept_packet(pkts, f1)
        /\ qfailed' = f1
    /\ wr' = <<>>
    /\ EnterRetrieve
    /\ SubmitFrame
    /\ UNCHANGED <<first_packet, eos_reached, pkts, supplied>>

\* lines 728-739 with a packet of the given size and timestamp
RecvSend(size, pts, o1, o2) ==
    /\ CallReady
    /\ eos_reached = 0
    /\ SendAnswerable(size, o1, o2)
    /\ \E f1 \in BOOLEAN :
        /\ rkmpp_accept_packet(pkts, f1)
        /\ qfailed' = f1
    /\ LET r == rkmpp_send_packet(size, pts, o1, o2) IN
        /\ wr' = r.wr
        /\ pkts' = r.pkts
        /\ first_packet' = r.first_packet
        /\ eos_reached' = r.eos_reached
        /\ IF r.ret < 0
           THEN ReturnToCaller(r.ret)
           ELSE EnterRetrieve
    /\ SubmitFrame

\* the caller's next packet is a data packet
RecvSendData ==
    /\ supplied < MaxPackets
    /\ \E pts \in PtsVals : \E o1, o2 \in WriteOutcomes : RecvSend(1, pts, o1, o2)
    /\ supplied' = supplied + 1

\* the caller's queue has ended: ff_decode_get_packet gives AVERROR_EOF and an empty packet
RecvSendEof ==
    /\ \E o1 \in WriteOutcomes : RecvSend(0, 0, o1, MPP_OK)
    /\ supplied' = supplied

RecvEosMarkerAny == \E o \in WriteOutcomes : RecvEosMarker(o)

(* ---------------------- rkmpp_retrieve_frame: poll --------------------- *)
\* a frame object as decode_get_frame returns it
FrameObject(ic, e, d, x, b, pts, orig, w, h, size) ==
    [info_change |-> ic, eos |-> e, discard |-> d, errinfo |-> x, buffer |-> b,
     pts |-> pts, orig |-> orig, width |-> w, height |-> h, buf_size |-> size]

\* the flags <<eos, discard, errinfo, buffer>> the engine puts on a frame object,
\* and on a notice
ObjectFlags == {<<FALSE, FALSE, FALSE, TRUE>>, <<FALSE, FALSE, FALSE, FALSE>>,
                <<TRUE, FALSE, FALSE, FALSE>>, <<TRUE, TRUE, TRUE, TRUE>>,
                <<FALSE, TRUE, FALSE, TRUE>>, <<FALSE, TRUE, TRUE, FALSE>>,
                <<FALSE, FALSE, TRUE, TRUE>>}
NoticeFlags == {<<FALSE, FALSE, FALSE, FALSE>>, <<TRUE, TRUE, TRUE, TRUE>>}

\* lines 537-552 fall through to the Output Adapter: a normal frame with a buffer
IsBackedFrame(f) == ~f.info_change /\ ~f.eos /\ ~f.discard /\ ~f.errinfo /\ f.buffer

\* the engine's side of a backed frame: it has announced the format, and its buffer
\* group still has a free buffer (the caller holds fewer than MaxHeld of them)
EngineCanBack == announced /\ (pix_fmt = AV_PIX_FMT_DRM_PRIME => HeldTotal < MaxHeld)

\* what every poll step leaves alone
PollFrame ==
    /\ wr' = <<>>
    /\ pc' = "classify"
    /\ qfailed' = FALSE
    /\ UNCHANGED <<lastRet, eof_returned, frame, conv_path, avctx, frames_ref>>
    /\ UNCHANGED <<cfgVars, flagVars, fpsVars, poolVars, rgaVars, refVars>>
    /\ UNCHANGED <<engine_alive, pkts, announced, supplied, notices, cv, op>>

\* line 482: the poll returns a pending format-change notice, whatever its other flags
PollNotice ==
    /\ pc = "retrieve"
    /\ notice # NoNotice
    /\ \E fl \in NoticeFlags :
        mppframe' = FrameObject(TRUE, fl[1], fl[2], fl[3], fl[4], 0, 0,
                                notice[1], notice[2], 0)
    /\ pollret' = MPP_OK
    /\ notice' = NoNotice
    /\ ack_pending' = TRUE
    /\ out' = out
    /\ PollFrame

\* line 482: the poll returns the oldest ready frame object. Its buffer size is
\* read only in software mode (line 565), and is left 0 elsewhere.
PollObject ==
    /\ pc = "retrieve"
    /\ notice = NoNotice
    /\ out # <<>>
    /\ LET it == Head(out) IN
       \E fl \in ObjectFlags : \E size \in BufSizes :
        LET f == FrameObject(FALSE, fl[1], fl[2], fl[3], fl[4], it.pts, it.orig, 0, 0,
                             IF fl[4] /\ pix_fmt = AV_PIX_FMT_YUV420P THEN size ELSE 0) IN
        /\ it.kind = "eosframe" => fl[1]
        /\ (~fl[4] \/ pix_fmt # AV_PIX_FMT_YUV420P) => size = 1
        /\ IsBackedFrame(f) => EngineCanBack
        /\ mppframe' = f
    /\ pollret' = MPP_OK
    /\ out' = Tail(out)
    /\ UNCHANGED <<notice, ack_pending>>
    /\ PollFrame

\* line 482: nothing is ready; the poll times out, or returns MPP_OK and no object
PollNothing ==
    /\ pc = "retrieve"
    /\ notice = NoNotice
    /\ out = <<>>
    /\ mppframe' = NoFrame
    /\ pollret' \in {MPP_OK, MPP_ERR_TIMEOUT}
    /\ UNCHANGED <<notice, ack_pending, out>>
    /\ PollFrame

\* line 482: the poll fails
PollError ==
    /\ pc = "retrieve"
    /\ mppframe' = NoFrame
    /\ pollret' = MPP_NOK
    /\ UNCHANGED <<notice, ack_pending, out>>
    /\ PollFrame

(* -------------------- rkmpp_retrieve_frame: classify ------------------- *)
\* a variant of RetryPending that never polls again
RetryPending_never(ret, usedslots) == FALSE

\* lines 702-706: poll again after "try again" while the engine reports packets
RetryPending(ret, usedslots) == ret = AVERROR_EAGAIN /\ usedslots # 0

\* lines 688-708: the object is released, then the call polls again or returns ret;
\* qf says the in-flight query of line 704 fails (it is made only after "try again")
FailPath(ret, qf) ==
    /\ mppframe' = NoFrame
    /\ IF RetryPending(ret, rkmpp_get_usedslots(pkts, qf))
       THEN pc' = "retrieve" /\ UNCHANGED <<lastRet, eof_returned>>
       ELSE ReturnToCaller(ret)

\* what the classify steps that build no frame leave alone
ClassifyFrame ==
    /\ pollret' = MPP_OK
    /\ UNCHANGED <<frame, wr, conv_path, qfailed, first_packet>>
    /\ UNCHANGED <<cfgVars, fpsVars, poolVars, rgaVars, refVars>>
    /\ UNCHANGED <<engineVars, callerVars, cv, op>>

PollSucceeded == pollret \in {MPP_OK, MPP_ERR_TIMEOUT}

\* lines 483-487: decode_get_frame failed
RetrieveGetFrameFailed ==
    /\ pc = "classify"
    /\ ~PollSucceeded
    /\ FailPath(AVERROR_UNKNOWN, FALSE)
    /\ UNCHANGED <<geomVars, eos_reached>>
    /\ ClassifyFrame

\* a variant of InfoChangeGeometry that publishes the aligned sizes as the sizes
InfoChangeGeometry_aligned(f) ==
    [width |-> FFALIGN(f.width, CODED_ALIGN), height |-> FFALIGN(f.height, CODED_ALIGN),
     coded_width |-> FFALIGN(f.width, CODED_ALIGN),
     coded_height |-> FFALIGN(f.height, CODED_ALIGN)]

\* lines 498-504: the Stream Geometry taken from a notice
InfoChangeGeometry(f) ==
    [width |-> f.width, height |-> f.height,
     coded_width |-> FFALIGN(f.width, CODED_ALIGN),
     coded_height |-> FFALIGN(f.height, CODED_ALIGN)]

\* a variant of InfoChangeWith that acknowledges the notice only after the frame
\* pool has been made
InfoChangeWith_ack_on_success(alloc) ==
    /\ pc = "classify"
    /\ PollSucceeded
    /\ mppframe # NoFrame
    /\ mppframe.info_change
    /\ avctx' = InfoChangeGeometry(mppframe)
    /\ ack_pending' = (alloc # "ok")
    /\ frames_ref' = (alloc # "alloc_failed")
    /\ IF alloc = "ok"
       THEN /\ mppframe' = NoFrame
            /\ pc' = "retrieve"
            /\ UNCHANGED <<lastRet, eof_returned>>
       ELSE FailPath(AVERROR_ENOMEM, FALSE)
    /\ UNCHANGED eos_reached
    /\ ClassifyFrame

\* lines 491-531: a format-change notice. alloc is what av_hwframe_ctx_alloc and
\* av_hwframe_ctx_init do: "ok", "alloc_failed", "init_failed"
InfoChangeWith(alloc) ==
    /\ pc = "classify"
    /\ PollSucceeded
    /\ mppframe # NoFrame
    /\ mppframe.info_change
    /\ avctx' = InfoChangeGeometry(mppframe)
    /\ ack_pending' = FALSE
    /\ frames_ref' = (alloc # "alloc_failed")
    /\ IF alloc = "ok"
       THEN /\ mppframe' = NoFrame
            /\ pc' = "retrieve"
            /\ UNCHANGED <<lastRet, eof_returned>>
       ELSE FailPath(AVERROR_ENOMEM, FALSE)
    /\ UNCHANGED eos_reached
    /\ ClassifyFrame

InfoChange == \E alloc \in {"ok", "alloc_failed", "init_failed"} : InfoChangeWith(alloc)

\* lines 532-536: an object flagged end-of-stream
EosFrame ==
    /\ pc = "classify"
    /\ PollSucceeded
    /\ mppframe # NoFrame
    /\ ~mppframe.info_change /\ mppframe.eos
    /\ eos_reached' = 1
    /\ FailPath(AVERROR_EOF, FALSE)
    /\ UNCHANGED geomVars
    /\ ClassifyFrame

\* a variant of DiscardFrame that tests the discard flag before the end-of-stream flag
DiscardFrame_before_eos ==
    /\ pc = "classify"
    /\ PollSucceeded
    /\ mppframe # NoFrame
    /\ ~mppframe.info_change /\ mppframe.discard
    /\ \E qf \in BOOLEAN : FailPath(AVERROR_EAGAIN, qf)
    /\ UNCHANGED <<geomVars, eos_reached>>
    /\ ClassifyFrame

\* lines 537-540: an object flagged discard
DiscardFrame ==
    /\ pc = "classify"
    /\ PollSucceeded
    /\ mppframe # NoFrame
    /\ ~mppframe.info_change /\ ~mppframe.eos /\ mppframe.discard
    /\ \E qf \in BOOLEAN : FailPath(AVERROR_EAGAIN, qf)
    /\ UNCHANGED <<geomVars, eos_reached>>
    /\ ClassifyFrame

\* lines 541-545: an object flagged as an error
ErrinfoFrame ==
    /\ pc = "classify"
    /\ PollSucceeded
    /\ mppframe # NoFrame
    /\ ~mppframe.info_change /\ ~mppframe.eos /\ ~mppframe.discard /\ mppframe.errinfo
    /\ FailPath(AVERROR_UNKNOWN, FALSE)
    /\ UNCHANGED <<geomVars, eos_reached>>
    /\ ClassifyFrame

\* lines 551-552, 673-677: a normal frame without a buffer
NoBufferFrame ==
    /\ pc = "classify"
    /\ PollSucceeded
    /\ mppframe # NoFrame
    /\ ~mppframe.info_change /\ ~mppframe.eos /\ ~mppframe.discard /\ ~mppframe.errinfo
    /\ ~mppframe.buffer
    /\ \E qf \in BOOLEAN : FailPath(AVERROR_EAGAIN, qf)
    /\ UNCHANGED <<geomVars, eos_reached>>
    /\ ClassifyFrame

\* a variant of NoFrameStatus without the end-of-stream test of lines 678-679
NoFrameStatus_without_eos(eos, status) ==
    IF status = MPP_ERR_TIMEOUT THEN AVERROR_EAGAIN ELSE AVERROR_UNKNOWN

\* lines 678-686: the status of a retrieval whose poll gave no object
NoFrameStatus(eos, status) ==
    IF eos # 0 THEN AVERROR_EOF
    ELSE IF status = MPP_ERR_TIMEOUT THEN AVERROR_EAGAIN
    ELSE AVERROR_UNKNOWN

\* lines 678-679: no object and the end-of-stream flag is set
NoFrameEos ==
    /\ pc = "classify"
    /\ PollSucceeded
    /\ mppframe = NoFrame
    /\ NoFrameStatus(eos_reached, pollret) = AVERROR_EOF
    /\ ReturnToCaller(AVERROR_EOF)
    /\ UNCHANGED <<geomVars, eos_reached, mppframe>>
    /\ ClassifyFrame

\* lines 680-684: no object, the poll timed out
NoFrameTimeout ==
    /\ pc = "classify"
    /\ PollSucceeded
    /\ mppframe = NoFrame
    /\ NoFrameStatus(eos_reached, pollret) = AVERROR_EAGAIN
    /\ \E qf \in BOOLEAN : FailPath(AVERROR_EAGAIN, qf)
    /\ UNCHANGED <<geomVars, eos_reached>>
    /\ ClassifyFrame

\* line 686: no object although the poll returned MPP_OK
NoFrameUnknown ==
    /\ pc = "classify"
    /\ PollSucceeded
    /\ mppframe = NoFrame
    /\ NoFrameStatus(eos_reached, pollret) = AVERROR_UNKNOWN
    /\ ReturnToCaller(AVERROR_UNKNOWN)
    /\ UNCHANGED <<geomVars, eos_reached, mppframe>>
    /\ ClassifyFrame

(* ----------------- rkmpp_retrieve_frame: Output Adapter ---------------- *)
\* strides the engine may report for a frame: <<hor_stride, ver_stride>>
StridePairs == {<<4, 4>>, <<3, 4>>}

\* lines 391-394 with the planes of lines 583-589: the accelerator's layout test,
\* in C's integer arithmetic
LayoutMatches(hs, vs) ==
    LET y_pitch == hs
        u_pitch == hs \div 2
        v_pitch == hs \div 2
        dst_u == hs * vs
        dst_v == dst_u + (hs * vs) \div 4
        dst_height == dst_u \div y_pitch
    IN  /\ u_pitch = y_pitch \div 2
        /\ v_pitch = y_pitch \div 2
        /\ dst_u = y_pitch * dst_height
        /\ dst_v = dst_u + (u_pitch * dst_height) \div 2

\* what the software path of rkmpp_convert_frame returns, line 430
CONVERT_SOFT_RET == -1

\* rkmpp_convert_frame, lines 355-431: its return value, the statics it leaves and
\* the path it took, and whether a call of the accelerator failed. initOk, blitOk:
\* what c_RkRgaInit and c_RkRgaBlit answer.
rkmpp_convert_frame(hs, vs, initOk, blitOk) ==
    IF ~librga \/ rga_supported = 0
    THEN [ret |-> CONVERT_SOFT_RET, rga_supported |-> rga_supported,
          rga_inited |-> rga_inited, path |-> "soft", failed |-> FALSE]
    ELSE IF rga_inited = 0 /\ ~initOk
    THEN [ret |-> CONVERT_SOFT_RET, rga_supported |-> 0,
          rga_inited |-> rga_inited, path |-> "soft", failed |-> TRUE]
    ELSE IF ~LayoutMatches(hs, vs) \/ ~blitOk
    THEN [ret |-> CONVERT_SOFT_RET, rga_supported |-> rga_supported,
          rga_inited |-> 1, path |-> "soft", failed |-> LayoutMatches(hs, vs)]
    ELSE [ret |-> 0, rga_supported |-> rga_supported, rga_inited |-> 1, path |-> "rga",
          failed |-> FALSE]

\* rkmpp_update_fps, lines 433-461 (FPS_UPDATE_INTERVAL frames are never reached
\* within MaxPackets, so only the counter and the first time stamp move)
UpdateFps ==
    IF print_fps
    THEN frames' = frames + 1 /\ last_fps_time' = 1
    ELSE UNCHANGED <<frames, last_fps_time>>

BackedFramePolled ==
    /\ pc = "classify"
    /\ PollSucceeded
    /\ mppframe # NoFrame
    /\ IsBackedFrame(mppframe)

\* lines 593-603: the frame handed to the caller
OutputFrame(f) == [pts |-> f.pts, orig |-> f.orig]

\* lines 552-619, 688-708 in software mode with the default get_buffer2:
\* the pool, the planes, the conversion. poolInitOk, poolGetOk: av_buffer_pool_init
\* gives a pool, av_buffer_pool_get gives a buffer (neither result is checked).
OutputSoftware ==
    /\ BackedFramePolled
    /\ pix_fmt # AV_PIX_FMT_DRM_PRIME
    /\ UpdateFps
    /\ \E poolInitOk, poolGetOk, initOk, blitOk \in BOOLEAN : \E sp \in StridePairs :
        LET c == rkmpp_convert_frame(sp[1], sp[2], initOk, blitOk)
            newpool == IF pool_size # mppframe.buf_size THEN poolInitOk ELSE pool
        IN
        /\ pool_size' = mppframe.buf_size
        /\ pool' = newpool
        /\ IF ~newpool \/ ~poolGetOk
           THEN \* frame->buf[0]->data through a NULL pool or a NULL buffer
                /\ pc' = "crashed"
                /\ UNCHANGED <<lastRet, eof_returned, mppframe, frame, conv_path, rgaVars>>
           ELSE /\ frame' = OutputFrame(mppframe)
                /\ conv_path' = c.path
                /\ rga_supported' = c.rga_supported
                /\ rga_inited' = c.rga_inited
                /\ rga_failed' = (rga_failed \/ c.failed)
                /\ FailPath(c.ret, FALSE)
    /\ pollret' = MPP_OK
    /\ UNCHANGED <<cfgVars, flagVars, refVars, geomVars, wr, qfailed>>
    /\ UNCHANGED <<engineVars, callerVars, cv, op>>

\* lines 552-672, 688-708 in zero-copy mode. failed names the allocation that fails:
\* "none", "desc" (621), "framecontextref" (646), "buf" (658), "hw_frames_ctx" (666);
\* refOk: av_buffer_ref of the decoder (654, not checked) gives a reference.
OutputZeroCopyWith(failed, refOk) ==
    /\ BackedFramePolled
    /\ pix_fmt = AV_PIX_FMT_DRM_PRIME
    /\ UpdateFps
    /\ IF failed \in {"desc", "framecontextref", "buf"}
        THEN \* the decoder reference taken at 654 is dropped again at 693-694
             /\ FailPath(AVERROR_ENOMEM, FALSE)
             /\ UNCHANGED <<held, dangling_buf, refcount, frame>>
        ELSE IF ~frames_ref
        THEN \* av_buffer_ref(NULL) at 666
             /\ pc' = "crashed"
             /\ refcount' = IF refOk THEN refcount + 1 ELSE refcount
             /\ UNCHANGED <<held, dangling_buf, frame, lastRet, eof_returned, mppframe>>
        ELSE IF failed = "hw_frames_ctx"
        THEN \* 688-700 free the frame context and the descriptor, and frame->buf[0]
             \* still points at them
             /\ FailPath(AVERROR_ENOMEM, FALSE)
             /\ dangling_buf' = TRUE
             /\ UNCHANGED <<held, refcount, frame>>
        ELSE /\ held' = [held EXCEPT ![IF refOk THEN "ref" ELSE "noref"] = @ + 1]
             /\ refcount' = IF refOk THEN refcount + 1 ELSE refcount
             /\ frame' = OutputFrame(mppframe)
             /\ mppframe' = NoFrame
             /\ dangling_buf' = dangling_buf
             /\ ReturnToCaller(0)
    /\ pollret' = MPP_OK
    /\ UNCHANGED <<cfgVars, flagVars, poolVars, rgaVars, geomVars, ctx_ref, teardowns,
                   wr, conv_path, qfailed>>
    /\ UNCHANGED <<engineVars, callerVars, cv, op>>

OutputZeroCopy ==
    \E failed \in {"none", "desc", "framecontextref", "buf", "hw_frames_ctx"} :
    \E refOk \in BOOLEAN : OutputZeroCopyWith(failed, refOk)

(* --------------------------- Lifecycle Manager ------------------------- *)
\* rkmpp_release_decoder, lines 180-199, run when the last reference is dropped
ReleaseDecoder ==
    /\ teardowns' = teardowns + 1
    /\ engine_alive' = FALSE
    /\ frames_ref' = FALSE
    /\ pkts' = <<>>
    /\ out' = <<>>
    /\ notice' = NoNotice

\* av_buffer_unref on a reference to the decoder buffer
UnrefDecoder ==
    /\ refcount' = refcount - 1
    /\ IF refcount - 1 = 0
       THEN ReleaseDecoder
       ELSE UNCHANGED <<teardowns, engine_alive, frames_ref, pkts, out, notice>>

\* rkmpp_close_decoder, lines 168-178
Close ==
    /\ pc = "idle"
    /\ ctx_ref
    /\ pool' = FALSE
    /\ ctx_ref' = FALSE
    /\ UnrefDecoder
    /\ UNCHANGED <<cfgVars, flagVars, fpsVars, rgaVars, callVars, qfailed, pool_size,
                   held, dangling_buf, avctx, ack_pending>>
    /\ UNCHANGED <<announced, callerVars, cv, op>>

\* what the release of a caller's buffer leaves alone
ReleaseFrameLeaves ==
    /\ UNCHANGED <<cfgVars, flagVars, fpsVars, poolVars, rgaVars, qfailed, ctx_ref,
                   lastRet, eof_returned, mppframe, pollret, frame, wr, conv_path, avctx,
                   ack_pending>>
    /\ UNCHANGED <<announced, callerVars, cv, op>>

\* rkmpp_release_frame, lines 342-353, for a descriptor whose frame context holds
\* a decoder reference
ReleaseFrameRef ==
    /\ pc = "idle"
    /\ held["ref"] > 0
    /\ held' = [held EXCEPT !["ref"] = @ - 1]
    /\ dangling_buf' = dangling_buf
    /\ UnrefDecoder
    /\ pc' = pc
    /\ ReleaseFrameLeaves

\* rkmpp_release_frame for a descriptor whose decoder_ref is NULL (654 failed)
ReleaseFrameNoRef ==
    /\ pc = "idle"
    /\ held["noref"] > 0
    /\ held' = [held EXCEPT !["noref"] = @ - 1]
    /\ dangling_buf' = dangling_buf
    /\ pc' = pc
    /\ UNCHANGED <<refcount, teardowns, engine_alive, frames_ref, pkts, out, notice>>
    /\ ReleaseFrameLeaves

\* rkmpp_release_frame on the buffer left by the failure at 666: it reads a freed
\* frame context. The read finds NULL (nothing more happens), or the reference of
\* another frame context that took the freed memory (that reference is dropped),
\* or the process dies.
ReleaseFrameDangling ==
    /\ pc = "idle"
    /\ dangling_buf
    /\ dangling_buf' = FALSE
    /\ held' = held
    /\ \E found \in {"null", "stale", "fault"} :
        /\ found = "stale" => held["ref"] > 0
        /\ IF found = "stale"
           THEN UnrefDecoder /\ pc' = pc
           ELSE /\ pc' = IF found = "fault" THEN "crashed" ELSE pc
                /\ UNCHANGED <<refcount, teardowns, engine_alive, frames_ref, pkts,
                               out, notice>>
    /\ ReleaseFrameLeaves

\* a variant of FlushReset that leaves the flags and counters alone
FlushReset_keeps_flags(resetOk) ==
    /\ UNCHANGED <<first_packet, eos_reached, frames, last_fps_time>>
    /\ IF resetOk THEN pkts' = <<>> /\ out' = <<>> ELSE UNCHANGED <<pkts, out>>

\* a variant of FlushReset that resets the flags and counters whatever the engine's
\* reset answers
FlushReset_always(resetOk) ==
    /\ first_packet' = 1
    /\ eos_reached' = 0
    /\ frames' = 0
    /\ last_fps_time' = 0
    /\ IF resetOk THEN pkts' = <<>> /\ out' = <<>> ELSE UNCHANGED <<pkts, out>>

\* lines 764-770: what rkmpp_flush does with the answer of the engine's reset
\* (a successful reset empties the engine's queues)
FlushReset(resetOk) ==
    IF resetOk
    THEN /\ first_packet' = 1
         /\ eos_reached' = 0
         /\ frames' = 0
         /\ last_fps_time' = 0
         /\ pkts' = <<>>
         /\ out' = <<>>
    ELSE UNCHANGED <<first_packet, eos_reached, frames, last_fps_time, pkts, out>>

\* rkmpp_flush, lines 756-771; resetOk: the engine's reset returns MPP_OK
FlushWith(resetOk) ==
    /\ pc = "idle"
    /\ ctx_ref
    /\ engine_alive
    /\ FlushReset(resetOk)
    /\ lastRet' = <<>>
    /\ eof_returned' = FALSE
    /\ UNCHANGED <<cfgVars, poolVars, rgaVars, refVars, geomVars, qfailed, pc, mppframe,
                   pollret, frame, wr, conv_path>>
    /\ UNCHANGED <<engine_alive, notice, announced, callerVars, cv, op>>

Flush == \E resetOk \in BOOLEAN : FlushWith(resetOk)

(* ------------------------------ the engine ----------------------------- *)
\* the engine decodes its oldest packet: a data packet gives a frame object carrying
\* the packet's timestamp, or nothing; the marker gives an end-of-stream object, or
\* nothing; the header gives nothing
EngineDecode ==
    /\ engine_alive
    /\ pkts # <<>>
    /\ LET p == Head(pkts) IN
       \E emits \in BOOLEAN :
        /\ emits => p.kind # "hdr" /\ Len(out) < MaxOut
        /\ out' = IF ~emits THEN out
                  ELSE Append(out, [kind |-> IF p.kind = "eos" THEN "eosframe" ELSE "frame",
                                    pts |-> p.pts, orig |-> p.orig])
    /\ pkts' = Tail(pkts)
    /\ UNCHANGED <<adapterVars, engine_alive, notice, announced, callerVars, cv, op>>

\* the engine finds a new format and queues a notice ahead of its frames
EngineInfoChange ==
    /\ engine_alive
    /\ notice = NoNotice
    /\ notices < MaxNotices
    /\ notice' = Geoms[notices + 1]
    /\ announced' = TRUE
    /\ notices' = notices + 1
    /\ UNCHANGED <<adapterVars, engine_alive, pkts, out, supplied, cv, op>>

(* ----------------------------- specification --------------------------- *)
CommonNext ==
    \/ RecvNotAdmitted
    \/ RecvEosMarkerAny
    \/ RecvNoPacket
    \/ RecvSendData
    \/ RecvSendEof
    \/ PollNotice
    \/ PollObject
    \/ PollNothing
    \/ PollError
    \/ RetrieveGetFrameFailed
    \/ InfoChange
    \/ EosFrame
    \/ DiscardFrame
    \/ ErrinfoFrame
    \/ NoBufferFrame
    \/ NoFrameEos
    \/ NoFrameTimeout
    \/ NoFrameUnknown
    \/ Close
    \/ Flush
    \/ EngineDecode
    \/ EngineInfoChange

NextZC ==
    \/ CommonNext
    \/ OutputZeroCopy
    \/ ReleaseFrameRef
    \/ ReleaseFrameNoRef
    \/ ReleaseFrameDangling

NextSW ==
    \/ CommonNext
    \/ OutputSoftware

SpecZC == InitZC /\ [][NextZC]_vars
SpecSW == InitSW /\ [][NextSW]_vars

(* ------------------- zero-copy mode, nothing fails ---------------------- *)
\* The adapter in zero-copy mode with an engine that accepts what it has room for
\* and whose polls do not fail, an allocator that does not fail, and a caller that
\* neither flushes nor closes and keeps calling receive().
LiveEosMarker == RecvEosMarker(MPP_OK)

LiveSendData ==
    /\ supplied < MaxPackets
    /\ \E pts \in PtsVals : RecvSend(1, pts, MPP_OK, MPP_OK)
    /\ supplied' = supplied + 1

LiveSendEof ==
    /\ RecvSend(0, 0, MPP_OK, MPP_OK)
    /\ supplied' = supplied

LiveInfoChange == InfoChangeWith("ok")

LiveOutput == OutputZeroCopyWith("none", TRUE)

\* the steps of the caller's receive() calls
LiveReceive ==
    \/ RecvNotAdmitted
    \/ LiveEosMarker
    \/ RecvNoPacket
    \/ LiveSendData
    \/ LiveSendEof
    \/ PollNotice
    \/ PollObject
    \/ PollNothing
    \/ LiveInfoChange
    \/ EosFrame
    \/ DiscardFrame
    \/ ErrinfoFrame
    \/ NoBufferFrame
    \/ NoFrameEos
    \/ NoFrameTimeout
    \/ NoFrameUnknown
    \/ LiveOutput

LiveNext ==
    \/ LiveReceive
    \/ ReleaseFrameRef
    \/ EngineDecode
    \/ EngineInfoChange

InitLive ==
    /\ AdapterInit({Config(AV_PIX_FMT_DRM_PRIME, 1, FALSE, FALSE)})
    /\ EngineInit /\ CallerInit /\ ConvIdle

\* the caller keeps calling and every call runs on; the engine keeps decoding
LiveSpec ==
    /\ InitLive
    /\ [][LiveNext]_vars
    /\ WF_vars(LiveReceive)
    /\ WF_vars(EngineDecode)


(* ------------------ rkmpp_init_decoder, step by step -------------------- *)
\* the adapter before open: priv_data is zeroed, nothing is acquired; the pixel
\* format is the one ff_get_format will give (line 209) and print_fps the setting
\* of FFMPEG_RKMPP_LOG_FPS (lines 218-220)
InitOpen ==
    /\ pix_fmt \in {AV_PIX_FMT_DRM_PRIME, AV_PIX_FMT_YUV420P}
    /\ extradata_size \in {0, 1}
    /\ print_fps \in BOOLEAN
    /\ librga = FALSE
    /\ reordered_opaque \in OpaqueVals
    /\ avctx = [width |-> 0, height |-> 0, coded_width |-> 0, coded_height |-> 0]
    /\ first_packet = 0
    /\ eos_reached = 0
    /\ frames_ref = FALSE
    /\ pool = FALSE
    /\ pool_size = 0
    /\ frames = 0
    /\ last_fps_time = 0
    /\ ctx_ref = FALSE
    /\ refcount = 0
    /\ teardowns = 0
    /\ held = [k \in DescKinds |-> 0]
    /\ dangling_buf = FALSE
    /\ rga_supported = 1
    /\ rga_inited = 0
    /\ rga_failed = FALSE
    /\ pc = "idle"
    /\ lastRet = <<>>
    /\ eof_returned = FALSE
    /\ mppframe = NoFrame
    /\ pollret = MPP_OK
    /\ frame = NoFrame
    /\ wr = <<>>
    /\ conv_path = "none"
    /\ qfailed = FALSE
    /\ engine_alive = FALSE
    /\ pkts = <<>>
    /\ out = <<>>
    /\ notice = NoNotice
    /\ announced = FALSE
    /\ ack_pending = FALSE
    /\ supplied = 0
    /\ notices = 0
    /\ cv = [pc |-> "off"]
    /\ \E codec \in CodecIds : op = OpenRecord("open", 1, codec, {}, 0)

\* what no step of open touches
OpenLeaves ==
    /\ UNCHANGED <<cfgVars, eos_reached, fpsVars, pool_size, rgaVars, held, dangling_buf,
                   callVars, avctx, ack_pending, qfailed>>
    /\ UNCHANGED <<announced, callerVars, cv>>

\* lines 212-294: the next call of open succeeds. av_buffer_create gives the one
\* reference on the decoder, mpp_create the engine, and line 283 sets first_packet
\* once the buffer group is configured.
OpenStepOk ==
    /\ op.pc = "open"
    /\ LET s == OpenSteps[op.step] IN
        /\ op' = [op EXCEPT
                    !.step = op.step + 1,
                    !.pc = IF op.step = Len(OpenSteps) THEN "opened" ELSE "open",
                    !.has = [r \in OpenResources |-> op.has[r] \/ r = s.gets],
                    !.acquired = [r \in OpenResources |->
                                    IF r = s.gets THEN op.acquired[r] + 1
                                    ELSE op.acquired[r]]]
        /\ ctx_ref' = (ctx_ref \/ s.gets = "decoder_ref")
        /\ refcount' = IF s.gets = "decoder_ref" THEN 1 ELSE refcount
        /\ engine_alive' = (engine_alive \/ s.gets = "ctx")
        /\ first_packet' = IF s.call = "mpp_buffer_group_limit_config" THEN 1
                           ELSE first_packet
    /\ UNCHANGED <<pool, teardowns, frames_ref, pkts, out, notice>>
    /\ OpenLeaves

\* lines 212-294: the next call of open fails; ret is set and control goes to fail.
\* A failed av_buffer_create frees the decoder first (line 225).
OpenStepFails ==
    /\ op.pc = "open"
    /\ LET s == OpenSteps[op.step]
           freed == s.call = "av_buffer_create" IN
        op' = [op EXCEPT
                 !.pc = "fail",
                 !.ret = s.err,
                 !.has = [r \in OpenResources |-> op.has[r] /\ ~(freed /\ r = "decoder")],
                 !.released = [r \in OpenResources |->
                                 IF freed /\ r = "decoder" THEN op.released[r] + 1
                                 ELSE op.released[r]]]
    /\ UNCHANGED <<first_packet, pool, refVars, frames_ref, engineVars>>
    /\ OpenLeaves

\* lines 297-301: the fail label calls rkmpp_close_decoder (lines 168-178), which
\* reads rk_context->decoder_ref->data. With a decoder reference, the reference is
\* dropped and rkmpp_release_decoder (lines 180-199) releases what the decoder
\* holds. Without one the read goes through a null pointer: the process dies, or
\* the read passes and open returns.
OpenFailClose ==
    /\ op.pc = "fail"
    /\ IF ctx_ref
       THEN /\ pool' = FALSE
            /\ ctx_ref' = FALSE
            /\ UnrefDecoder
            /\ op' = [op EXCEPT
                        !.pc = "returned",
                        !.has = [r \in OpenResources |-> FALSE],
                        !.released = [r \in OpenResources |->
                                        IF op.has[r] THEN op.released[r] + 1
                                        ELSE op.released[r]]]
       ELSE /\ \E survives \in BOOLEAN :
                op' = [op EXCEPT !.pc = IF survives THEN "returned" ELSE "crashed"]
            /\ UNCHANGED <<pool, ctx_ref, refcount, teardowns, engine_alive, frames_ref,
                           pkts, out, notice>>
    /\ UNCHANGED first_packet
    /\ OpenLeaves

OpenNext ==
    \/ OpenStepOk
    \/ OpenStepFails
    \/ OpenFailClose

OpenSpec == InitOpen /\ [][OpenNext]_vars
(* -------- rkmpp_convert_frame, software path, lines 413-430, by bytes ---- *)
\* the largest width, height and stride of a converted frame
MaxDim == 6
Dims == {d \in 2..MaxDim : d % 2 = 0}

\* the size of the semi-planar source, and of the pooled destination buffer
\* (line 565, mpp_frame_get_buf_size)
BufSize(hs, vs) == hs * vs + (hs * vs) \div 2

\* the known source: the byte at offset k
SrcByte(k) == k + 1
\* what a read beyond the source may find
StrayBytes == {0, 255}

\* the destination planes as lines 583-589 set them up
DstU(hs, vs) == hs * vs
DstV(hs, vs) == DstU(hs, vs) + (hs * vs) \div 4
Pitch(hs) == hs \div 2

ConvStart(W, H, hs, vs) ==
    [pc |-> "luma", width |-> W, height |-> H, hstride |-> hs, vstride |-> vs,
     i |-> 0, j |-> 0, dst |-> [k \in 0..(BufSize(hs, vs) - 1) |-> 0], oob |-> FALSE]

InitConv ==
    /\ AdapterInit({Config(AV_PIX_FMT_YUV420P, 0, FALSE, FALSE)})
    /\ EngineInit /\ CallerInit
    /\ \E W, H, hs, vs \in Dims :
        /\ hs >= W /\ vs >= H
        /\ cv = ConvStart(W, H, hs, vs)

\* lines 413-414: memcpy of one luma row
ConvLumaRow ==
    /\ cv.pc = "luma"
    /\ LET base == cv.i * cv.hstride
           row == base..(base + cv.width - 1)
       IN  cv' = [cv EXCEPT
                    !.dst = [k \in DOMAIN cv.dst |->
                                IF k \in row THEN SrcByte(k) ELSE cv.dst[k]],
                    !.i = IF cv.i + 1 < cv.height THEN cv.i + 1 ELSE 0,
                    !.pc = IF cv.i + 1 < cv.height THEN "luma" ELSE "chroma"]
    /\ UNCHANGED <<adapterVars, engineVars, callerVars, op>>

\* the offsets one turn of the inner loop, lines 419-422, reads and writes
SrcOffU(c) == c.hstride * c.vstride + c.i * c.hstride + 2 * c.j
SrcOffV(c) == SrcOffU(c) + 1
DstOffU(c) == DstU(c.hstride, c.vstride) + c.i * Pitch(c.hstride) + c.j
DstOffV(c) == DstV(c.hstride, c.vstride) + c.i * Pitch(c.hstride) + c.j
InBuffer(c, k) == k < BufSize(c.hstride, c.vstride)
ConvInBounds(c) ==
    /\ InBuffer(c, SrcOffU(c)) /\ InBuffer(c, SrcOffV(c))
    /\ InBuffer(c, DstOffU(c)) /\ InBuffer(c, DstOffV(c))

\* the store of value v at offset k: beyond the buffer it lands in other memory
Store(d, k, v) == IF k \in DOMAIN d THEN [d EXCEPT ![k] = v] ELSE d

\* the loop counters after one turn of the inner loop, lines 418-426
ConvAdvance(c) ==
    IF c.j + 1 < c.width THEN [c EXCEPT !.j = c.j + 1]
    ELSE IF c.i + 1 < c.height \div 2 THEN [c EXCEPT !.j = 0, !.i = c.i + 1]
    ELSE [c EXCEPT !.pc = "done"]

\* lines 419-422: dst_u[j] = src[2 * j + 0]; dst_v[j] = src[2 * j + 1]
ConvChromaByte ==
    /\ cv.pc = "chroma"
    /\ \E su, sv \in StrayBytes :
        LET u == IF InBuffer(cv, SrcOffU(cv)) THEN SrcByte(SrcOffU(cv)) ELSE su
            v == IF InBuffer(cv, SrcOffV(cv)) THEN SrcByte(SrcOffV(cv)) ELSE sv
            d == Store(Store(cv.dst, DstOffU(cv), u), DstOffV(cv), v)
        IN  cv' = ConvAdvance([cv EXCEPT !.dst = d,
                                         !.oob = cv.oob \/ ~ConvInBounds(cv)])
    /\ UNCHANGED <<adapterVars, engineVars, callerVars, op>>

\* an access beyond a buffer may also end the process
ConvFault ==
    /\ cv.pc = "chroma"
    /\ ~ConvInBounds(cv)
    /\ cv' = [cv EXCEPT !.pc = "fault", !.oob = TRUE]
    /\ UNCHANGED <<adapterVars, engineVars, callerVars, op>>

ConvNext ==
    \/ ConvLumaRow
    \/ ConvChromaByte
    \/ ConvFault

ConvSpec == InitConv /\ [][ConvNext]_vars

(* ------------------------------ properties ------------------------------ *)
\* the submit step of a receive() call
SubmitStep ==
    \/ RecvNotAdmitted
    \/ RecvEosMarkerAny
    \/ RecvNoPacket
    \/ RecvSendData
    \/ RecvSendEof

\* a step in which a receive() call returns to its caller
ReceiveReturns == lastRet' # <<>> /\ (pc # "idle" \/ SubmitStep)

\* the last write of the submit step just taken, and whether the engine refused
\* it with "buffer full"
LastWrite(w) == w[Len(w)]
RefusedFull(w) == w # <<>> /\ LastWrite(w).outcome = MPP_ERR_BUFFER_FULL

\* C1: in zero-copy mode the engine teardown runs at most once, and only after
\* close() has been called and every issued Frame Descriptor has been released.
C1_TeardownOnceAfterLastRelease ==
    /\ teardowns <= 1
    /\ teardowns > 0 => (~ctx_ref /\ HeldTotal = 0)

\* C2, as stated: the number of packets in flight inside the engine never exceeds
\* INPUT_MAX_PACKETS.
C2_InFlightNeverAboveLimit == Len(pkts) <= INPUT_MAX_PACKETS

\* C2: the number of packets in flight grows beyond INPUT_MAX_PACKETS only in a
\* submit step whose in-flight query failed; a step whose query succeeded never
\* takes the count above INPUT_MAX_PACKETS.
C2_InFlightAboveLimitOnlyOnFailedQuery ==
    [][(Len(pkts') > Len(pkts) /\ Len(pkts') > INPUT_MAX_PACKETS) => qfailed']_vars

\* C2: a failed query has let a packet in above the limit
C2_AboveLimitReached == Len(pkts) > INPUT_MAX_PACKETS /\ qfailed

\* C3: once the end-of-stream flag is set by a zero-length unit, with the engine
\* decoding on and the caller calling on, some receive() call returns end-of-stream.
C3_EosEventuallyReturned == (eos_reached = 1) ~> (lastRet = <<AVERROR_EOF>>)

\* C3: end-of-stream was returned to a caller that had supplied all its data packets
C3_EosReturnedAfterData ==
    /\ lastRet = <<AVERROR_EOF>>
    /\ supplied = MaxPackets
    /\ eos_reached = 1

\* C4, as stated: a submit step whose write the engine refuses with "buffer full"
\* returns "try again" and leaves the first-packet and end-of-stream flags as they were.
C4_RefusalLeavesFlags ==
    [][(RefusedFull(wr') /\ SubmitStep) =>
          /\ pc' = "idle" /\ lastRet' = <<AVERROR_EAGAIN>>
          /\ first_packet' = first_packet
          /\ eos_reached' = eos_reached]_vars

\* C4: a submit step whose write the engine refuses with "buffer full" returns
\* "try again" and puts nothing of the refused write in the engine; the
\* end-of-stream flag is set when the refused write was the end-of-stream marker
\* and unchanged otherwise; the first-packet flag is cleared when the refused write
\* was the data packet (the header, if any, having been accepted) and unchanged
\* otherwise.
C4_RefusalReturnsTryAgain ==
    [][(RefusedFull(wr') /\ SubmitStep) =>
          /\ pc' = "idle" /\ lastRet' = <<AVERROR_EAGAIN>>
          /\ Len(pkts') = Len(pkts) + Len(wr') - 1
          /\ eos_reached' = (IF LastWrite(wr').kind = "eos" THEN 1 ELSE eos_reached)
          /\ first_packet' = (IF LastWrite(wr').kind = "data" THEN 0 ELSE first_packet)]_vars

\* C4: the header was accepted, the first data packet refused, and the first-packet
\* flag is cleared
C4_FirstDataRefused ==
    /\ Len(wr) = 2
    /\ RefusedFull(wr)
    /\ first_packet = 0
    /\ lastRet = <<AVERROR_EAGAIN>>

\* the adapter's step out of "classify" (the engine may decode meanwhile)
ClassifyStep == pc = "classify" /\ pc' # "classify"

\* the classify step of a polled format-change notice
NoticeStep == ClassifyStep /\ PollSucceeded /\ mppframe # NoFrame /\ mppframe.info_change

\* C5: the step that processes a format-change notice hands no frame to the caller
\* (it polls again or returns a status that is not success) and sets the width and
\* height to those of the notice; no other step changes the Stream Geometry.
C5_NoticeNeverAFrame ==
    [][/\ NoticeStep =>
            /\ avctx'.width = mppframe.width
            /\ avctx'.height = mppframe.height
            /\ frame' = NoFrame
            /\ pc' = "retrieve" \/ (pc' = "idle" /\ lastRet' # <<0>>)
       /\ avctx' # avctx => NoticeStep]_vars

\* C5: a frame was delivered after a notice set the geometry
C5_FrameAfterNotice ==
    /\ avctx.width = Geoms[1][1]
    /\ avctx.height = Geoms[1][2]
    /\ pc = "idle"
    /\ lastRet = <<0>>

\* C6: once a receive() call has returned end-of-stream, every later call before a
\* flush returns end-of-stream.
C6_EosIsTerminal ==
    [][(eof_returned /\ ReceiveReturns) => lastRet' = <<AVERROR_EOF>>]_vars

\* the classify step after a poll that timed out with no object, end-of-stream not set
TimeoutStep ==
    /\ ClassifyStep
    /\ mppframe = NoFrame
    /\ pollret = MPP_ERR_TIMEOUT
    /\ eos_reached = 0

\* C7, as stated: after a poll that timed out with packets outstanding in the
\* engine, the retrieval returns "try again" to the caller.
C7_TimeoutReturnsTryAgain ==
    [][(TimeoutStep /\ Len(pkts) > 0) =>
          (pc' = "idle" /\ lastRet' = <<AVERROR_EAGAIN>>)]_vars

\* C7: after a poll that timed out, the retrieval polls again whenever packets are
\* outstanding in the engine; it returns to the caller only when none is, and then
\* with "try again".
C7_TimeoutPollsAgainWhilePending ==
    [][TimeoutStep =>
          /\ Len(pkts) > 0 => pc' = "retrieve"
          /\ pc' # "retrieve" =>
                (pc' = "idle" /\ lastRet' = <<AVERROR_EAGAIN>> /\ Len(pkts) = 0)]_vars

\* C7: a poll has timed out with packets outstanding in the engine
C7_TimeoutWithPending ==
    /\ pc = "classify"
    /\ mppframe = NoFrame
    /\ pollret = MPP_ERR_TIMEOUT
    /\ eos_reached = 0
    /\ Len(pkts) > 0

\* C8: in software mode, a retrieval that converts its frame by the software path
\* returns that frame with the success status.
C8_SoftwarePathReturnsFrame ==
    [][(conv_path = "none" /\ conv_path' = "soft") =>
          (pc' = "idle" /\ lastRet' = <<0>> /\ frame' # NoFrame)]_vars

\* the expected planes of a finished conversion
LumaExact(c) ==
    \A r \in 0..(c.height - 1) : \A x \in 0..(c.width - 1) :
        c.dst[r * c.hstride + x] = SrcByte(r * c.hstride + x)
ChromaUExact(c) ==
    \A r \in 0..(c.height \div 2 - 1) : \A x \in 0..(c.width \div 2 - 1) :
        c.dst[DstU(c.hstride, c.vstride) + r * Pitch(c.hstride) + x]
            = SrcByte(c.hstride * c.vstride + r * c.hstride + 2 * x)
ChromaVExact(c) ==
    \A r \in 0..(c.height \div 2 - 1) : \A x \in 0..(c.width \div 2 - 1) :
        c.dst[DstV(c.hstride, c.vstride) + r * Pitch(c.hstride) + x]
            = SrcByte(c.hstride * c.vstride + r * c.hstride + 2 * x + 1)

\* C9: the software conversion ends with the luma plane equal to the source luma,
\* the U and V planes equal to the even and odd source chroma bytes, and no access
\* outside the destination planes or the source buffer.
C9_ConversionExact ==
    /\ cv.pc # "fault"
    /\ cv.pc = "done" =>
        (LumaExact(cv) /\ ChromaUExact(cv) /\ ChromaVExact(cv) /\ ~cv.oob)

\* C10: a frame returned to the caller carries the timestamp its packet was
\* submitted with, whenever the caller gave the packet a timestamp.
C10_FrameCarriesPacketTimestamp ==
    (pc = "idle" /\ lastRet = <<0>> /\ frame # NoFrame /\ frame.orig # AV_NOPTS_VALUE)
        => frame.pts = frame.orig

\* C11: every data packet in the engine carries the timestamp its caller gave it,
\* 0 included, and the stashed opaque value exactly when the caller gave none.
C11_PacketCarriesCallerTimestamp ==
    \A i \in 1..Len(pkts) :
        pkts[i].kind = "data" =>
            pkts[i].pts = (IF pkts[i].orig = AV_NOPTS_VALUE THEN reordered_opaque
                           ELSE pkts[i].orig)

\* C12: with an in-flight query that succeeds, the admission check is true exactly
\* when the engine holds fewer than INPUT_MAX_PACKETS packets: a submit step is
\* turned away if and only if the count has reached the limit, and the step that is
\* turned away changes no field of the adapter and nothing in the engine.
C12_AdmitsBelowLimit ==
    [][/\ rkmpp_accept_packet(pkts, FALSE) <=> Len(pkts) < INPUT_MAX_PACKETS
       /\ (pc = "idle" /\ ~qfailed' /\ SubmitStep) =>
            /\ RecvNotAdmitted <=> Len(pkts) >= INPUT_MAX_PACKETS
            /\ RecvNotAdmitted =>
                UNCHANGED <<flagVars, fpsVars, poolVars, rgaVars, refVars, geomVars,
                            engineVars>>]_vars

\* C12: a call was turned away with the engine holding INPUT_MAX_PACKETS packets
C12_TurnedAwayAtLimit ==
    /\ pc = "retrieve"
    /\ lastRet = <<>>
    /\ wr = <<>>
    /\ ~qfailed
    /\ mppframe = NoFrame
    /\ Len(pkts) = INPUT_MAX_PACKETS

\* C13: a submit step whose in-flight query fails is never turned away: the
\* admission check is true whatever the engine holds.
C13_FailedQueryAdmits ==
    [][(pc = "idle" /\ qfailed' /\ SubmitStep) =>
          (rkmpp_accept_packet(pkts, TRUE) /\ ~RecvNotAdmitted)]_vars

\* C13: the query failed with the engine at the limit, and the packet went in
C13_AdmittedAtLimitOnFailedQuery ==
    /\ qfailed
    /\ wr # <<>>
    /\ LastWrite(wr).outcome = MPP_OK
    /\ Len(pkts) = INPUT_MAX_PACKETS + 1

\* the submit step that sends a caller's data packet
SendDataStep == pc = "idle" /\ RecvSendData

\* the step that sets the end-of-stream flag: the zero-length unit is submitted, or
\* a polled object flagged end-of-stream is classified
EosSetStep ==
    \/ pc = "idle" /\ wr' # <<>> /\ wr'[1].kind = "eos"
    \/ pc = "classify" /\ mppframe # NoFrame /\ mppframe.eos

\* C14: a flush whose reset succeeds leaves the end-of-stream flag cleared, the
\* first-packet flag set as after open and the counters zero; a data submission made
\* with the first-packet flag set and a header present writes the header first, then
\* the data packet; and a call returns end-of-stream only with the end-of-stream flag
\* set, which nothing but a new zero-length unit or a polled end-of-stream object sets.
C14_FlushReopensStream ==
    [][/\ FlushWith(TRUE) =>
            (first_packet' = 1 /\ eos_reached' = 0 /\ frames' = 0 /\ last_fps_time' = 0)
       /\ (first_packet = 1 /\ extradata_size > 0 /\ SendDataStep) =>
            /\ wr'[1].kind = "hdr"
            /\ Len(wr') = 2 => wr'[2].kind = "data"
       /\ (lastRet' = <<AVERROR_EOF>> /\ ReceiveReturns) => eos_reached' = 1
       /\ (eos_reached = 0 /\ eos_reached' = 1) => EosSetStep]_vars

\* C14: a frame of the first data packet is with the caller, and after a flush the
\* second data packet went in behind a new header
C14_HeaderSentAgainAfterFlush ==
    /\ held["ref"] > 0
    /\ supplied = 2
    /\ Len(wr) = 2
    /\ wr[1] = [kind |-> "hdr", outcome |-> MPP_OK]
    /\ wr[2] = [kind |-> "data", outcome |-> MPP_OK]
    /\ eos_reached = 0

\* C15: a flush whose reset fails leaves the first-packet flag, the end-of-stream
\* flag and the counters as they were, and returns to the caller.
C15_FailedResetLeavesFlags ==
    [][FlushWith(FALSE) =>
          /\ UNCHANGED <<first_packet, eos_reached, frames, last_fps_time>>
          /\ pc' = "idle"]_vars

\* C15: a flush has just failed on a stream that had ended after a delivered frame
C15_FlagsKeptAfterFailedReset ==
    /\ pc = "idle"
    /\ lastRet = <<>>
    /\ first_packet = 0
    /\ eos_reached = 1
    /\ frames > 0

\* the submit step that sends the zero-length unit
SendEofStep == pc = "idle" /\ RecvSendEof

\* C16: the submit step of a zero-length unit sets the end-of-stream flag, makes one
\* write, of the end-of-stream marker, leaves the first-packet flag as it was, and
\* gives the write's status: accepted (the marker is in the engine and the call goes
\* on), "try again" for buffer full, a fatal error for anything else.
C16_ZeroLengthUnitSendsMarker ==
    [][SendEofStep =>
          /\ eos_reached' = 1
          /\ first_packet' = first_packet
          /\ Len(wr') = 1 /\ wr'[1].kind = "eos"
          /\ IF wr'[1].outcome = MPP_OK
             THEN /\ pkts' = Append(pkts, [kind |-> "eos", pts |-> reordered_opaque,
                                           orig |-> 0])
                  /\ pc' = "retrieve"
             ELSE /\ pkts' = pkts
                  /\ pc' = "idle"
                  /\ lastRet' = <<IF wr'[1].outcome = MPP_ERR_BUFFER_FULL
                                  THEN AVERROR_EAGAIN ELSE AVERROR_UNKNOWN>>]_vars

\* C16: the zero-length unit was refused with buffer full before any data packet
\* was sent, and the first-packet flag is still set
C16_MarkerRefusedBeforeFirstPacket ==
    /\ wr = <<[kind |-> "eos", outcome |-> MPP_ERR_BUFFER_FULL]>>
    /\ eos_reached = 1
    /\ first_packet = 1
    /\ lastRet = <<AVERROR_EAGAIN>>

\* C17: a data submission made with the first-packet flag set and a header present
\* writes the header first; if that write fails nothing else is written, the call
\* returns the failure and the flag stays set; if it succeeds the data packet
\* follows with the header's timestamp and the flag is cleared. With the flag
\* cleared no submission writes a header, and only a flush whose reset succeeds
\* sets the flag again.
C17_HeaderBeforeFirstData ==
    [][/\ (first_packet = 1 /\ extradata_size > 0 /\ SendDataStep) =>
            /\ wr'[1].kind = "hdr"
            /\ IF wr'[1].outcome # MPP_OK
               THEN /\ Len(wr') = 1
                    /\ pkts' = pkts
                    /\ first_packet' = 1
                    /\ pc' = "idle"
                    /\ lastRet' = <<WriteRet(wr'[1].outcome)>>
               ELSE /\ Len(wr') = 2 /\ wr'[2].kind = "data"
                    /\ first_packet' = 0
                    /\ Len(pkts') >= Len(pkts) + 1
                    /\ pkts'[Len(pkts) + 1].kind = "hdr"
                    /\ wr'[2].outcome = MPP_OK =>
                        /\ Len(pkts') = Len(pkts) + 2
                        /\ pkts'[Len(pkts) + 2].kind = "data"
                        /\ pkts'[Len(pkts) + 2].pts = pkts'[Len(pkts) + 1].pts
       /\ (first_packet = 0 /\ pc = "idle" /\ SubmitStep) =>
            \A i \in 1..Len(wr') : wr'[i].kind # "hdr"
       /\ (first_packet = 0 /\ first_packet' = 1) => FlushWith(TRUE)]_vars

\* C17: the header of the first data packet was refused and the call returned the
\* failure with the first-packet flag still set
C17_HeaderRefused ==
    /\ Len(wr) = 1
    /\ wr[1].kind = "hdr"
    /\ wr[1].outcome # MPP_OK
    /\ first_packet = 1
    /\ pkts = <<>>
    /\ pc = "idle"
    /\ lastRet = <<WriteRet(wr[1].outcome)>>

\* C18: once a call of the accelerator (its initialisation or a blit) has failed,
\* the supported flag is cleared, so that no later conversion tries it again.
C18_FailureClearsSupported == rga_failed => rga_supported = 0

\* c is the smallest multiple of CODED_ALIGN that is not less than x
SmallestMultiple(c, x) == c % CODED_ALIGN = 0 /\ c >= x /\ c - CODED_ALIGN < x

\* one or more format-change notices have been processed
NoticeProcessed == avctx # [width |-> 0, height |-> 0, coded_width |-> 0, coded_height |-> 0]

\* C19: the step that processes a notice sets each coded size to the smallest
\* multiple of CODED_ALIGN not less than the notice's size; and in every state after
\* one or more notices the width and height are at most the coded width and height,
\* which are such smallest multiples of CODED_ALIGN for them.
C19_CodedSizeAligned ==
    [][/\ NoticeStep =>
            /\ SmallestMultiple(avctx'.coded_width, mppframe.width)
            /\ SmallestMultiple(avctx'.coded_height, mppframe.height)
       /\ NoticeProcessed' =>
            /\ avctx'.width <= avctx'.coded_width
            /\ avctx'.height <= avctx'.coded_height
            /\ SmallestMultiple(avctx'.coded_width, avctx'.width)
            /\ SmallestMultiple(avctx'.coded_height, avctx'.height)]_vars

\* C19: a notice was processed whose width is rounded up and whose height is a
\* multiple of CODED_ALIGN already
C19_RoundedUpAndExact ==
    /\ avctx.width # 0
    /\ avctx.width < avctx.coded_width
    /\ avctx.height = avctx.coded_height

\* the classify step of an object the poll returned
PolledObjectStep == ClassifyStep /\ PollSucceeded /\ mppframe # NoFrame

\* "try again" handling: the object is dropped, and the call polls again or
\* returns "try again"
TryAgainHandled ==
    /\ mppframe' = NoFrame
    /\ pc' = "retrieve" \/ (pc' = "idle" /\ lastRet' = <<AVERROR_EAGAIN>>)

\* C20: a polled object is handled by its first flag in the order info-change,
\* end-of-stream, discard, error, no buffer, whatever other flags it carries: a
\* notice sets the geometry and is polled over (or the frame pool cannot be made);
\* an end-of-stream object sets the flag and returns end-of-stream; a discarded or
\* unbacked object gets "try again" handling; an error object returns the fatal
\* error; only a backed normal frame reaches the Output Adapter, which counts it
\* and returns it unless an allocation fails.
C20_FirstMatchingFlagDecides ==
    [][PolledObjectStep =>
          /\ ~IsBackedFrame(mppframe) => (frame' = frame /\ frames' = frames)
          /\ IF mppframe.info_change
             THEN /\ avctx' = InfoChangeGeometry(mppframe)
                  /\ eos_reached' = eos_reached
                  /\ pc' = "retrieve" \/ (pc' = "idle" /\ lastRet' = <<AVERROR_ENOMEM>>)
             ELSE /\ avctx' = avctx
                  /\ IF mppframe.eos
                     THEN eos_reached' = 1 /\ pc' = "idle" /\ lastRet' = <<AVERROR_EOF>>
                     ELSE /\ eos_reached' = eos_reached
                          /\ IF mppframe.discard THEN TryAgainHandled
                             ELSE IF mppframe.errinfo
                             THEN pc' = "idle" /\ lastRet' = <<AVERROR_UNKNOWN>>
                             ELSE IF ~mppframe.buffer THEN TryAgainHandled
                             ELSE /\ print_fps => frames' = frames + 1
                                  /\ lastRet' = <<0>> => frame' = OutputFrame(mppframe)
                                  /\ \/ pc' = "crashed"
                                     \/ /\ pc' = "idle"
                                        /\ lastRet' \in {<<0>>, <<AVERROR_ENOMEM>>}]_vars

\* C20: the poll returned an object that carries the end-of-stream, discard and
\* error flags and a buffer at once
C20_ObjectWithSeveralFlags ==
    /\ pc = "classify"
    /\ pollret = MPP_OK
    /\ mppframe # NoFrame
    /\ ~mppframe.info_change
    /\ mppframe.eos /\ mppframe.discard /\ mppframe.errinfo /\ mppframe.buffer

\* C21: every receive() call that has entered the retrieval returns to its caller.
C21_ReceiveReturnsToCaller == (pc = "retrieve") ~> (pc = "idle")

\* the classify step of a polled object flagged discard (and neither info-change
\* nor end-of-stream)
DiscardStep ==
    /\ PolledObjectStep
    /\ ~mppframe.info_change /\ ~mppframe.eos /\ mppframe.discard

\* C22: a discarded object is released and never handed to the caller; the
\* retrieval polls again only if the engine holds packets or the caller may still
\* submit one (the end-of-stream flag is not set), and otherwise returns "try again".
C22_DiscardPollsAgainOnlyWhilePending ==
    [][DiscardStep =>
          /\ mppframe' = NoFrame
          /\ frame' = frame
          /\ pc' = "retrieve" => (Len(pkts) > 0 \/ eos_reached = 0)
          /\ pc' # "retrieve" => (pc' = "idle" /\ lastRet' = <<AVERROR_EAGAIN>>)]_vars

\* a poll step of the retrieval
PollStep == pc = "retrieve" /\ pc' = "classify"

\* C23: a polled notice is acknowledged in the step that sets the Stream Geometry
\* from it, on the success path and on the allocation-failure path alike, and that
\* step releases the notice object; nothing else acknowledges, and no poll is made
\* while a notice is unacknowledged or an object unreleased.
C23_NoticeAcknowledgedOnce ==
    [][/\ NoticeStep =>
            /\ ack_pending /\ ~ack_pending'
            /\ avctx' = InfoChangeGeometry(mppframe)
            /\ mppframe' = NoFrame
       /\ (ack_pending /\ ~ack_pending') => NoticeStep
       /\ (~ack_pending /\ ack_pending') => (PollStep /\ mppframe'.info_change)
       /\ PollStep => (~ack_pending /\ mppframe = NoFrame)]_vars

\* C23: a notice was acknowledged and released on the allocation-failure path
C23_AcknowledgedOnAllocationFailure ==
    /\ pc = "idle"
    /\ lastRet = <<AVERROR_ENOMEM>>
    /\ avctx.width = Geoms[1][1]
    /\ ~frames_ref
    /\ ~ack_pending
    /\ mppframe = NoFrame
    /\ notices = 1 /\ notice = NoNotice

\* C24: in software mode, when the retrieval takes a pooled buffer for a backed
\* frame, the pool exists and has the buffer size the engine reported for the frame.
C24_PoolMatchesFrame ==
    [][(PolledObjectStep /\ IsBackedFrame(mppframe)) =>
          (pool' /\ pool_size' = mppframe.buf_size)]_vars

\* C25: once a receive() call has returned end-of-stream, no later call (before a
\* flush) returns a frame: every frame was returned before the first end-of-stream.
C25_NoFrameAfterEos ==
    [][(eof_returned /\ ReceiveReturns) => lastRet' # <<0>>]_vars

\* C26: in zero-copy mode the decoder buffer's reference count is 1 while the
\* adapter is open, 0 after close, plus the Frame Descriptors the caller holds, and
\* no frame buffer is left pointing at released memory.
C26_RefcountMatchesHolders ==
    /\ refcount = (IF ctx_ref THEN 1 ELSE 0) + HeldTotal
    /\ ~dangling_buf

\* C27: a data packet that receive() takes from the caller's queue stays with the
\* caller, to be submitted again, when the engine answers its write with "buffer
\* full" or when the write of the header ahead of it fails.
C27_RefusedPacketKept ==
    [][(SendDataStep /\ (RefusedFull(wr') \/ LastWrite(wr').kind = "hdr")) =>
          supplied' = supplied]_vars

\* C28: open never reads through a handle it has not created, and when it fails
\* it returns an error with everything it acquired released exactly once.
C28_OpenFailureCleansUp ==
    /\ op.pc # "crashed"
    /\ op.pc = "returned" =>
        /\ op.ret < 0
        /\ \A r \in OpenResources :
            op.acquired[r] <= 1 /\ op.released[r] = op.acquired[r] /\ ~op.has[r]

\* C29: with the end-of-stream flag set, a submit step takes no packet from the
\* caller; it is turned away by the admission check, or writes one end-of-stream
\* marker and then goes on to the poll if the write was accepted and returns the
\* write's failure otherwise. Only a flush whose reset succeeds clears the flag.
C29_OnlyMarkersAfterEos ==
    [][/\ (eos_reached = 1 /\ pc = "idle" /\ SubmitStep) =>
            /\ supplied' = supplied
            /\ \/ RecvNotAdmitted /\ wr' = <<>> /\ pc' = "retrieve"
               \/ /\ Len(wr') = 1 /\ wr'[1].kind = "eos"
                  /\ rkmpp_accept_packet(pkts, qfailed')
                  /\ IF wr'[1].outcome = MPP_OK
                     THEN pc' = "retrieve"
                     ELSE pc' = "idle" /\ lastRet' = <<WriteRet(wr'[1].outcome)>>
       /\ (eos_reached = 1 /\ eos_reached' = 0) => FlushWith(TRUE)]_vars

\* C29: after end-of-stream was returned, a later call wrote the marker again, the
\* engine refused it, and the call returned the failure
C29_MarkerRefusedAfterEos ==
    /\ eof_returned
    /\ eos_reached = 1
    /\ wr = <<[kind |-> "eos", outcome |-> MPP_NOK]>>
    /\ pc = "idle"
    /\ lastRet = <<AVERROR_UNKNOWN>>
====
